---- MODULE Spec2Model ----
(***************************************************************************)
(* A model of dev/dev_scripts/generate_parallel_execution_plan.py: the     *)
(* ParallelExecutionPlanner that loads a dependency feed and a conflict    *)
(* feed, orders the tasks topologically and packs them greedily into       *)
(* conflict-free waves.                                                    *)
(*                                                                         *)
(* Strings that the program inspects character by character (file paths    *)
(* and patterns) are sequences of one-character strings.  Task ids are     *)
(* one-letter strings, so Python's string order on them is the order of    *)
(* their positions in IdUniverse.                                          *)
(***************************************************************************)
EXTENDS Integers, Sequences, FiniteSets, TLC

(***************************************************************************)
(* Bounds of the model.                                                    *)
(***************************************************************************)
NumTasks == 3
MaxDeps == 2
MaxRuntime == 2
MaxRuns == 2

IdUniverse == <<"A", "B", "C", "D", "E", "F">>
TaskIds == {IdUniverse[i] : i \in 1..NumTasks}
\* An id that is the id of no task: a dangling dependency reference.
GhostId == "Z"
AllIds == TaskIds \cup {GhostId}

IdIndex(id) == CHOOSE i \in 1..Len(IdUniverse) : IdUniverse[i] = id
\* Python's  a < b  on two task ids.
IdLess(a, b) == IdIndex(a) < IdIndex(b)

(***************************************************************************)
(* List helpers.                                                           *)
(***************************************************************************)
Range(s) == {s[i] : i \in DOMAIN s}

Contains(s, x) == \E i \in DOMAIN s : s[i] = x

RECURSIVE SumSeq(_)
SumSeq(s) == IF s = <<>> THEN 0 ELSE Head(s) + SumSeq(Tail(s))

RECURSIVE MaxSeq(_, _)
\* Python's max(iterable, default=d).
MaxSeq(s, d) ==
    IF s = <<>> THEN d
    ELSE LET m == MaxSeq(Tail(s), Head(s))
         IN  IF Head(s) >= m THEN Head(s) ELSE m

\* Python's order on the tuples (int, str).
KeyLess(k1, k2) == k1[1] < k2[1] \/ (k1[1] = k2[1] /\ IdLess(k1[2], k2[2]))

\* Python's list.sort(key=...): stable, ascending in the key.  key[i] is the
\* key of s[i]; an element moves in front of exactly the elements with a
\* greater key and of the later elements with an equal key.
SortStable(s, key) ==
    LET pos(i) == 1 + Cardinality({j \in DOMAIN s :
                        \/ KeyLess(key[j], key[i])
                        \/ ~KeyLess(key[i], key[j]) /\ j < i})
    IN  [k \in 1..Len(s) |-> s[CHOOSE i \in DOMAIN s : pos(i) = k]]

\* The elements of set S in the order in which they occur in sequence order.
InOrder(S, order) == SelectSeq(order, LAMBDA x : x \in S)

\* The ids of S in ascending order.
Ascending(S) == InOrder(S, IdUniverse \o <<GhostId>>)

RECURSIVE IterationOrders(_)
\* Every order in which a set can be iterated.
IterationOrders(S) ==
    IF S = {} THEN {<<>>}
    ELSE UNION {{<<x>> \o p : p \in IterationOrders(S \ {x})} : x \in S}

(***************************************************************************)
(* Python str operations, on sequences of one-character strings.           *)
(***************************************************************************)
\* The characters of a str, one by one.
Chars(s) == [i \in 1..Len(s) |-> SubSeq(s, i, i)]

\* Whether sub occurs in s at position i.
OccursAt(s, sub, i) ==
    /\ i >= 1
    /\ i + Len(sub) - 1 <= Len(s)
    /\ \A k \in 1..Len(sub) : s[i + k - 1] = sub[k]

\* sub in s
StrIn(sub, s) == \E i \in 1..(Len(s) + 1) : OccursAt(s, sub, i)

RECURSIVE StrReplace(_, _, _)
\* s.replace(old, new), for a non-empty old: the occurrences of old, found from
\* left to right without overlap, each become new.
StrReplace(s, old, new) ==
    IF s = <<>> THEN <<>>
    ELSE IF OccursAt(s, old, 1)
         THEN new \o StrReplace(SubSeq(s, Len(old) + 1, Len(s)), old, new)
         ELSE <<Head(s)>> \o StrReplace(Tail(s), old, new)

RECURSIVE LStrip(_, _)
\* s.lstrip(c) for a single character c.
LStrip(s, c) == IF s # <<>> /\ Head(s) = c THEN LStrip(Tail(s), c) ELSE s

RECURSIVE RStrip(_, _)
\* s.rstrip(c) for a single character c.
RStrip(s, c) ==
    IF s # <<>> /\ s[Len(s)] = c THEN RStrip(SubSeq(s, 1, Len(s) - 1), c) ELSE s

RECURSIVE StrSplit(_, _)
\* s.split(c) for a single character c: the pieces between the separators,
\* the empty ones included.
StrSplit(s, c) ==
    IF ~Contains(s, c) THEN <<s>>
    ELSE LET i == CHOOSE k \in DOMAIN s :
                      s[k] = c /\ \A m \in 1..(k - 1) : s[m] # c
         IN  <<SubSeq(s, 1, i - 1)>> \o StrSplit(SubSeq(s, i + 1, Len(s)), c)

\* [p for p in s.split('/') if p]
PathParts(s) == SelectSeq(StrSplit(s, "/"), LAMBDA p : p # <<>>)

RECURSIVE StrJoin(_, _)
\* c.join(parts)
StrJoin(parts, c) ==
    IF parts = <<>> THEN <<>>
    ELSE IF Len(parts) = 1 THEN parts[1]
         ELSE parts[1] \o <<c>> \o StrJoin(Tail(parts), c)

(***************************************************************************)
(* Python's re, for the patterns of the model.  A pattern compiles to a    *)
(* list of items, one per atom: the characters the atom accepts (chars,    *)
(* or every character but chars when neg), an anchor, and the repeat that  *)
(* follows it.  ReError is re.error.  The constructs that the model leaves *)
(* out (groups, alternation, ranges, classes, counted and possessive       *)
(* repeats) compile to ReUnsupported, and no pattern of the model does.    *)
(***************************************************************************)
ReError == [failed |-> "re.error", items |-> <<>>]
ReUnsupported == [failed |-> "unsupported", items |-> <<>>]
ReCompiled(items) == [failed |-> "", items |-> items]
\* OverflowError("the repetition number is too large"): not an re.error.
ReOverflow == [failed |-> "OverflowError", items |-> <<>>]

RePunctuation ==
    {".", "/", "-", "_", "*", "+", "?", "^", "$", "(", ")", "[", "]", "{", "}",
     "|", "\\"}

ReAtom(chars, neg) == [kind |-> "atom", chars |-> chars, neg |-> neg, quant |-> "one"]
ReAnchor(kind) == [kind |-> kind, chars |-> {}, neg |-> FALSE, quant |-> "one"]

\* The position of the "]" that closes the set opened before position j, the
\* first member of the set standing at j (a "]" there is a member), or 0.
ReSetEnd(s, j) ==
    IF \E k \in (j + 1)..Len(s) : s[k] = "]"
    THEN CHOOSE k \in (j + 1)..Len(s) :
             s[k] = "]" /\ \A m \in (j + 1)..(k - 1) : s[m] # "]"
    ELSE 0

RECURSIVE ReParse(_, _, _)
\* sre_parse: the items of s from position i on, after items.
ReParse(s, i, items) ==
    IF i > Len(s) THEN ReCompiled(items)
    ELSE LET c == s[i]
             last == items[Len(items)]
         IN
         CASE c = "\\" ->
                IF i = Len(s) THEN ReError
                ELSE IF s[i + 1] \in RePunctuation
                     THEN ReParse(s, i + 2, Append(items, ReAtom({s[i + 1]}, FALSE)))
                     ELSE ReUnsupported
           [] c = "." -> ReParse(s, i + 1, Append(items, ReAtom({}, TRUE)))
           [] c = "^" -> ReParse(s, i + 1, Append(items, ReAnchor("bol")))
           [] c = "$" -> ReParse(s, i + 1, Append(items, ReAnchor("eol")))
           [] c = "[" ->
                LET neg == i < Len(s) /\ s[i + 1] = "^"
                    j == IF neg THEN i + 2 ELSE i + 1
                    e == ReSetEnd(s, j)
                    members == {s[k] : k \in j..(e - 1)}
                IN  IF j > Len(s) \/ e = 0 THEN ReError
                    ELSE IF members \cap {"\\", "-", "["} # {} THEN ReUnsupported
                    ELSE ReParse(s, e + 1, Append(items, ReAtom(members, neg)))
           [] c = "(" ->
                IF \E k \in (i + 1)..Len(s) : s[k] = ")" THEN ReUnsupported
                ELSE ReError
           [] c = ")" -> ReError
           [] c = "|" -> ReUnsupported
           [] c \in {"*", "+", "?"} ->
                IF items = <<>> \/ last.kind # "atom" THEN ReError
                ELSE IF last.quant # "one" THEN ReError
                ELSE LET q == CASE c = "*" -> "star" [] c = "+" -> "plus"
                                [] OTHER -> "opt"
                         done == [items EXCEPT ![Len(items)].quant = q]
                     IN  IF i < Len(s) /\ s[i + 1] = "?"
                         THEN ReParse(s, i + 2, done)
                         ELSE IF i < Len(s) /\ s[i + 1] = "+" THEN ReUnsupported
                         ELSE ReParse(s, i + 1, done)
           [] c = "{" ->
                \* A count of eleven digits or more, the first of them not 0,
                \* is over MAXREPEAT: sre_parse raises OverflowError.
                LET digits == {"0", "1", "2", "3", "4", "5", "6", "7", "8", "9"}
                    run == {n \in 0..(Len(s) - i) :
                                \A k \in 1..n : s[i + k] \in digits}
                    n == CHOOSE m \in run : \A o \in run : o <= m
                IN  IF /\ n >= 11
                       /\ s[i + 1] # "0"
                       /\ i + n + 1 <= Len(s)
                       /\ s[i + n + 1] = "}"
                    THEN ReOverflow
                    ELSE IF i < Len(s) /\ s[i + 1] \in digits \cup {",", "}"}
                    THEN ReUnsupported
                    ELSE ReParse(s, i + 1, Append(items, ReAtom({c}, FALSE)))
           [] OTHER -> ReParse(s, i + 1, Append(items, ReAtom({c}, FALSE)))

\* re.compile(s)
ReCompile(s) == ReParse(s, 1, <<>>)

\* Whether the atom accepts character c.
ReAccepts(item, c) == (c \in item.chars) # item.neg

RECURSIVE ReMatchFrom(_, _, _, _)
\* Whether items i.. match path from position j on, ending anywhere.
ReMatchFrom(items, path, i, j) ==
    IF i > Len(items) THEN TRUE
    ELSE LET it == items[i]
             here == j <= Len(path) /\ ReAccepts(it, path[j])
         IN
         CASE it.kind = "bol" -> j = 1 /\ ReMatchFrom(items, path, i + 1, j)
           [] it.kind = "eol" ->
                j = Len(path) + 1 /\ ReMatchFrom(items, path, i + 1, j)
           [] it.quant = "one" -> here /\ ReMatchFrom(items, path, i + 1, j + 1)
           [] it.quant = "opt" ->
                \/ here /\ ReMatchFrom(items, path, i + 1, j + 1)
                \/ ReMatchFrom(items, path, i + 1, j)
           [] it.quant = "star" ->
                \/ here /\ ReMatchFrom(items, path, i, j + 1)
                \/ ReMatchFrom(items, path, i + 1, j)
           [] OTHER ->
                \* plus: one occurrence, then as star
                here /\ \/ ReMatchFrom(items, path, i, j + 1)
                        \/ ReMatchFrom(items, path, i + 1, j + 1)

\* bool(re.search(s, path)), and False where re.error is caught.
ReSearch(s, path) ==
    LET compiled == ReCompile(s)
    IN  /\ compiled.failed = ""
        /\ \E j \in 1..(Len(path) + 1) : ReMatchFrom(compiled.items, path, 1, j)

(***************************************************************************)
(* FilePattern and the pattern conflict check.                             *)
(***************************************************************************)
FilePattern(pattern, type) == [pattern |-> pattern, type |-> type]

\* pattern.replace('**/', '.*').replace('*', '[^/]*')
GlobToRegex(pattern) ==
    StrReplace(StrReplace(pattern, <<"*", "*", "/">>, <<".", "*">>),
               <<"*">>, <<"[", "^", "/", "]", "*">>)

\* FilePattern.matches
matches(fp, file_path) ==
    CASE fp.type = "exact" -> fp.pattern = file_path
      [] fp.type = "regex" -> ReSearch(fp.pattern, file_path)
      [] fp.type = "glob" -> ReSearch(GlobToRegex(fp.pattern), file_path)
      [] OTHER -> FALSE

\* The literal texts of _generate_and_test_paths.
Str_ts ==
    <<".", "t", "s">>

Str_file_ts ==
    <<"/", "f", "i", "l", "e", ".", "t", "s">>

Str_sub_file_ts ==
    <<"/", "s", "u", "b", "/", "f", "i", "l", "e", ".", "t", "s">>

Str_handlers_file_ts ==
    <<"/", "h", "a", "n", "d", "l", "e", "r", "s", "/", "f", "i", "l", "e",
      ".", "t", "s">>

Str_ado_service_ts ==
    <<"/", "a", "d", "o", "-", "s", "e", "r", "v", "i", "c", "e", ".", "t",
      "s">>

Str_tool_service_ts ==
    <<"/", "t", "o", "o", "l", "-", "s", "e", "r", "v", "i", "c", "e", ".",
      "t", "s">>

Str_response_builder_ts ==
    <<"/", "r", "e", "s", "p", "o", "n", "s", "e", "-", "b", "u", "i", "l",
      "d", "e", "r", ".", "t", "s">>

Str_services ==
    <<"s", "e", "r", "v", "i", "c", "e", "s">>

Str_utils ==
    <<"u", "t", "i", "l", "s">>

Path_services_1 ==
    <<"m", "c", "p", "_", "s", "e", "r", "v", "e", "r", "/", "s", "r", "c",
      "/", "s", "e", "r", "v", "i", "c", "e", "s", "/", "a", "d", "o", "-",
      "w", "o", "r", "k", "-", "i", "t", "e", "m", "-", "s", "e", "r", "v",
      "i", "c", "e", ".", "t", "s">>

Path_services_2 ==
    <<"m", "c", "p", "_", "s", "e", "r", "v", "e", "r", "/", "s", "r", "c",
      "/", "s", "e", "r", "v", "i", "c", "e", "s", "/", "a", "d", "o", "-",
      "q", "u", "e", "r", "y", "-", "s", "e", "r", "v", "i", "c", "e", ".",
      "t", "s">>

Path_services_3 ==
    <<"m", "c", "p", "_", "s", "e", "r", "v", "e", "r", "/", "s", "r", "c",
      "/", "s", "e", "r", "v", "i", "c", "e", "s", "/", "t", "o", "o", "l",
      "-", "s", "e", "r", "v", "i", "c", "e", ".", "t", "s">>

Path_services_4 ==
    <<"m", "c", "p", "_", "s", "e", "r", "v", "e", "r", "/", "s", "r", "c",
      "/", "s", "e", "r", "v", "i", "c", "e", "s", "/", "h", "a", "n", "d",
      "l", "e", "r", "s", "/", "h", "a", "n", "d", "l", "e", "r", ".", "t",
      "s">>

Path_services_5 ==
    <<"m", "c", "p", "_", "s", "e", "r", "v", "e", "r", "/", "s", "r", "c",
      "/", "s", "e", "r", "v", "i", "c", "e", "s", "/", "h", "a", "n", "d",
      "l", "e", "r", "s", "/", "w", "i", "t", "-", "h", "a", "n", "d", "l",
      "e", "r", ".", "t", "s">>

Path_utils_1 ==
    <<"m", "c", "p", "_", "s", "e", "r", "v", "e", "r", "/", "s", "r", "c",
      "/", "u", "t", "i", "l", "s", "/", "r", "e", "s", "p", "o", "n", "s",
      "e", "-", "b", "u", "i", "l", "d", "e", "r", ".", "t", "s">>

Path_utils_2 ==
    <<"m", "c", "p", "_", "s", "e", "r", "v", "e", "r", "/", "s", "r", "c",
      "/", "u", "t", "i", "l", "s", "/", "l", "o", "g", "g", "e", "r", ".",
      "t", "s">>

Path_utils_3 ==
    <<"m", "c", "p", "_", "s", "e", "r", "v", "e", "r", "/", "s", "r", "c",
      "/", "u", "t", "i", "l", "s", "/", "a", "u", "t", "h", ".", "t", "s">>

\* Whether FilePattern.matches raises: the exception of re.search that its
\* except clauses do not catch.
MatchesRaises(fp) ==
    CASE fp.type = "regex" -> ReCompile(fp.pattern).failed = "OverflowError"
      [] fp.type = "glob" ->
             ReCompile(GlobToRegex(fp.pattern)).failed = "OverflowError"
      [] OTHER -> FALSE

\* The type _patterns_conflict gives a pattern: regex when its text looks
\* like one, whatever its declared type.
ActualType(fp) ==
    IF \/ StrIn(<<"\\", ".">>, fp.pattern)
       \/ StrIn(<<".", "*">>, fp.pattern)
       \/ StrIn(<<"$">>, fp.pattern)
       \/ StrIn(<<"^">>, fp.pattern)
    THEN "regex"
    ELSE fp.type

\* pattern.lstrip('^').rstrip('$')
StripAnchors(pattern) == RStrip(LStrip(pattern, "^"), "$")

\* pattern.lstrip('^').rstrip('$').replace('\\.', '.')
NormalizeExactRegex(pattern) ==
    StrReplace(StripAnchors(pattern), <<"\\", ".">>, <<".">>)

_is_exact_regex(pattern) ==
    LET cleaned == StripAnchors(pattern)
        wildcards == {<<".", "*">>, <<".", "+">>, <<"[">>, <<"]">>, <<"(">>,
                      <<"|">>, <<"{">>, <<"}">>, <<"?">>, <<"+">>, <<"*">>}
    IN  \A w \in wildcards : ~StrIn(w, cleaned)

\* re.sub(r'[\.\*\[\]\(\)\?\+\{\}\\].*$', '', pattern).rstrip('/')
_extract_base_path(pattern) ==
    LET special == {".", "*", "[", "]", "(", ")", "?", "+", "{", "}", "\\"}
        cut == {i \in DOMAIN pattern : pattern[i] \in special}
        first == CHOOSE i \in cut : \A k \in cut : i <= k
        base == IF cut = {} THEN pattern ELSE SubSeq(pattern, 1, first - 1)
    IN  RStrip(base, "/")

\* The candidate paths made from one base.
BaseTestPaths(base) ==
    <<base \o Str_ts, base \o Str_file_ts, base \o Str_sub_file_ts,
      base \o Str_handlers_file_ts, base \o Str_ado_service_ts,
      base \o Str_tool_service_ts, base \o Str_response_builder_ts>>

\* The length of the longest common prefix of two lists.
CommonPrefixLen(parts1, parts2) ==
    LET n == IF Len(parts1) <= Len(parts2) THEN Len(parts1) ELSE Len(parts2)
        same == {k \in 0..n : \A i \in 1..k : parts1[i] = parts2[i]}
    IN  CHOOSE k \in same : \A m \in same : m <= k

_generate_and_test_paths(pattern1, pattern2, base1, base2) ==
    LET parts1 == PathParts(base1)
        parts2 == PathParts(base2)
        common_prefix == SubSeq(parts1, 1, CommonPrefixLen(parts1, parts2))
        test_paths ==
            (IF base1 # <<>> THEN BaseTestPaths(base1) ELSE <<>>)
            \o (IF base2 # <<>> /\ base2 # base1 THEN BaseTestPaths(base2) ELSE <<>>)
            \o (IF StrIn(Str_services, base1) \/ StrIn(Str_services, base2)
                THEN <<Path_services_1, Path_services_2, Path_services_3,
                       Path_services_4, Path_services_5>>
                ELSE <<>>)
            \o (IF StrIn(Str_utils, base1) \/ StrIn(Str_utils, base2)
                THEN <<Path_utils_1, Path_utils_2, Path_utils_3>>
                ELSE <<>>)
        m1 == {i \in DOMAIN test_paths : matches(pattern1, test_paths[i])}
        m2 == {i \in DOMAIN test_paths : matches(pattern2, test_paths[i])}
        overlap_count == Cardinality(m1 \cap m2)
        match1_count == Cardinality(m1)
        match2_count == Cardinality(m2)
    IN  IF overlap_count > 0 THEN TRUE
        ELSE IF match1_count > 0 /\ match2_count > 0 /\ Len(common_prefix) >= 3
             THEN TRUE
             ELSE FALSE

_check_regex_pattern_overlap(pattern1, pattern2) ==
    IF _is_exact_regex(pattern1.pattern) /\ _is_exact_regex(pattern2.pattern)
    THEN NormalizeExactRegex(pattern1.pattern) = NormalizeExactRegex(pattern2.pattern)
    ELSE LET base1 == _extract_base_path(pattern1.pattern)
             base2 == _extract_base_path(pattern2.pattern)
             parts1 == PathParts(base1)
             parts2 == PathParts(base2)
             min_len == IF Len(parts1) <= Len(parts2) THEN Len(parts1)
                        ELSE Len(parts2)
         IN  IF parts1 = <<>> \/ parts2 = <<>> THEN TRUE
             ELSE IF SubSeq(parts1, 1, min_len) = SubSeq(parts2, 1, min_len)
                  THEN _generate_and_test_paths(pattern1, pattern2, base1, base2)
                  ELSE FALSE

_patterns_conflict(pattern1, pattern2) ==
    LET actual_type1 == ActualType(pattern1)
        actual_type2 == ActualType(pattern2)
        wild == {"regex", "glob"}
    IN  IF actual_type1 = "exact" /\ actual_type2 = "exact"
        THEN pattern1.pattern = pattern2.pattern
        ELSE IF actual_type1 \in wild /\ actual_type2 \in wild
        THEN IF _is_exact_regex(pattern1.pattern) /\ _is_exact_regex(pattern2.pattern)
             THEN NormalizeExactRegex(pattern1.pattern)
                      = NormalizeExactRegex(pattern2.pattern)
             ELSE _check_regex_pattern_overlap(pattern1, pattern2)
        ELSE IF actual_type1 = "exact" /\ actual_type2 \in wild
        THEN matches(pattern2, pattern1.pattern)
        ELSE IF actual_type2 = "exact" /\ actual_type1 \in wild
        THEN matches(pattern1, pattern2.pattern)
        ELSE FALSE

\* Whether _patterns_conflict raises: it reaches a matches that raises, in
\* the mixed case or with the first candidate path of the probe.
PatternsConflictRaises(pattern1, pattern2) ==
    LET actual_type1 == ActualType(pattern1)
        actual_type2 == ActualType(pattern2)
        wild == {"regex", "glob"}
        parts1 == PathParts(_extract_base_path(pattern1.pattern))
        parts2 == PathParts(_extract_base_path(pattern2.pattern))
        min_len == IF Len(parts1) <= Len(parts2) THEN Len(parts1) ELSE Len(parts2)
    IN  IF actual_type1 = "exact" /\ actual_type2 = "exact" THEN FALSE
        ELSE IF actual_type1 \in wild /\ actual_type2 \in wild
        THEN /\ ~(_is_exact_regex(pattern1.pattern) /\ _is_exact_regex(pattern2.pattern))
             /\ parts1 # <<>> /\ parts2 # <<>>
             /\ SubSeq(parts1, 1, min_len) = SubSeq(parts2, 1, min_len)
             /\ (MatchesRaises(pattern1) \/ MatchesRaises(pattern2))
        ELSE IF actual_type1 = "exact" /\ actual_type2 \in wild
        THEN MatchesRaises(pattern2)
        ELSE IF actual_type2 = "exact" /\ actual_type1 \in wild
        THEN MatchesRaises(pattern1)
        ELSE FALSE

(***************************************************************************)
(* The state.                                                              *)
(***************************************************************************)
VARIABLES
    dependencies,             \* the dependency feed: a list of task records
    file_patterns_data,       \* the conflict feed: a list of records
    hashRandomized,           \* whether str hashes differ from run to run
    hashOrder,                \* this run's iteration order of a set of ids
    tasks,                    \* self.tasks: id -> Task, in insertion order
    taskOrder,                \* the insertion order of the keys of self.tasks
    dependency_graph,         \* self.dependency_graph
    reverse_dependency_graph, \* self.reverse_dependency_graph
    pc,                       \* where the run is
    sorted_tasks,             \* generate_execution_plan's sorted_tasks
    waves,                    \* generate_execution_plan's waves
    completed_tasks,          \* generate_execution_plan's completed_tasks
    result,                   \* what generate_execution_plan returned
    error,                    \* the message of the exception raised, if any
    run,                      \* the number of this run
    prevResult                \* what the previous run on this input returned

vars == <<dependencies, file_patterns_data, hashRandomized, hashOrder, tasks,
          taskOrder, dependency_graph, reverse_dependency_graph, pc,
          sorted_tasks, waves, completed_tasks, result, error, run, prevResult>>

inputVars == <<dependencies, file_patterns_data, hashRandomized>>
plannerVars == <<tasks, taskOrder, dependency_graph, reverse_dependency_graph>>

NoResult == [none |-> TRUE]
NoError == ""
CircularError == "Circular dependency detected!"
NoAvailableError == "No available tasks - possible circular dependency!"
RepetitionError == "the repetition number is too large"


(***************************************************************************)
(* load_data                                                               *)
(***************************************************************************)
\* The FilePattern made from one entry of a record's 'files': a dict with
\* 'pattern' and 'type', or (legacy) a bare string, here [str |-> text].
LoadFilePattern(file_info) ==
    IF "str" \in DOMAIN file_info
    THEN IF StrIn(<<"*", "*">>, file_info.str)
         THEN FilePattern(file_info.str, "glob")
         ELSE FilePattern(file_info.str, "exact")
    ELSE FilePattern(file_info.pattern, file_info.type)

\* file_pattern_map.get(task_id, []): the patterns of the last record of the
\* conflict feed with this task id.
FilePatternMapGet(task_id) ==
    LET at == {i \in DOMAIN file_patterns_data :
                   file_patterns_data[i].task_id = task_id}
        last == CHOOSE i \in at : \A k \in at : k <= i
        files == file_patterns_data[last].files
    IN  IF at = {} THEN <<>>
        ELSE [k \in DOMAIN files |-> LoadFilePattern(files[k])]

\* The Task built from one record of the dependency feed.
LoadTask(task_data) ==
    [task_id |-> task_data.task_id,
     size |-> task_data.size,
     expected_runtime_min |-> task_data.expected_runtime_min,
     depends_on |-> task_data.depends_on,
     conflicts_with |-> <<>>,
     file_patterns |-> FilePatternMapGet(task_data.task_id),
     tags |-> task_data.tags,
     enabler |-> task_data.enabler]

LoadedIds == {dependencies[i].task_id : i \in DOMAIN dependencies}

\* The last record of the dependency feed with this task id.
LastRecord(task_id) ==
    LET at == {i \in DOMAIN dependencies : dependencies[i].task_id = task_id}
    IN  dependencies[CHOOSE i \in at : \A k \in at : k <= i]

\* The keys of self.tasks in insertion order: by first occurrence in the feed.
LoadedOrder ==
    LET first(i) == \A k \in 1..(i - 1) :
                        dependencies[k].task_id # dependencies[i].task_id
        keep == {i \in DOMAIN dependencies : first(i)}
        nth(n) == CHOOSE i \in keep : Cardinality({k \in keep : k < i}) = n - 1
    IN  [n \in 1..Cardinality(keep) |-> dependencies[nth(n)].task_id]

\* load_data dropping from every dependency list the ids that are the id of
\* no task, instead of keeping them.
LoadDataDroppingUnknownDependencies ==
    /\ pc = "constructed"
    /\ tasks' = [id \in LoadedIds |->
                    [LoadTask(LastRecord(id)) EXCEPT
                        !.depends_on = SelectSeq(@, LAMBDA dep : dep \in LoadedIds)]]
    /\ taskOrder' = LoadedOrder
    /\ dependency_graph' =
           [id \in AllIds |->
               LoadedIds \cap
               UNION {Range(dependencies[i].depends_on) :
                          i \in {k \in DOMAIN dependencies :
                                     dependencies[k].task_id = id}}]
    /\ reverse_dependency_graph' =
           [dep \in AllIds |->
               IF dep \notin LoadedIds THEN {}
               ELSE {dependencies[i].task_id :
                        i \in {k \in DOMAIN dependencies :
                                   Contains(dependencies[k].depends_on, dep)}}]
    /\ pc' = "loaded"
    /\ UNCHANGED <<inputVars, hashOrder, sorted_tasks, waves, completed_tasks,
                   result, error, run, prevResult>>

LoadData ==
    /\ pc = "constructed"
    /\ tasks' = [id \in LoadedIds |-> LoadTask(LastRecord(id))]
    /\ taskOrder' = LoadedOrder
    /\ dependency_graph' =
           [id \in AllIds |->
               UNION {Range(dependencies[i].depends_on) :
                          i \in {k \in DOMAIN dependencies :
                                     dependencies[k].task_id = id}}]
    /\ reverse_dependency_graph' =
           [dep \in AllIds |->
               {dependencies[i].task_id :
                    i \in {k \in DOMAIN dependencies :
                               Contains(dependencies[k].depends_on, dep)}}]
    /\ pc' = "loaded"
    /\ UNCHANGED <<inputVars, hashOrder, sorted_tasks, waves, completed_tasks,
                   result, error, run, prevResult>>

(***************************************************************************)
(* The conflict check of two tasks.                                        *)
(***************************************************************************)
\* The check with the explicit conflicts of the first task alone.
CheckFileConflictDeclaredByFirst(task1, task2) ==
    IF task1.task_id = task2.task_id THEN FALSE
    ELSE IF Contains(task1.conflicts_with, task2.task_id)
    THEN TRUE
    ELSE \E i \in DOMAIN task1.file_patterns, j \in DOMAIN task2.file_patterns :
             _patterns_conflict(task1.file_patterns[i], task2.file_patterns[j])

_check_file_conflict(task1, task2) ==
    IF task1.task_id = task2.task_id THEN FALSE
    ELSE IF \/ Contains(task1.conflicts_with, task2.task_id)
            \/ Contains(task2.conflicts_with, task1.task_id)
    THEN TRUE
    ELSE \E i \in DOMAIN task1.file_patterns, j \in DOMAIN task2.file_patterns :
             _patterns_conflict(task1.file_patterns[i], task2.file_patterns[j])

\* Whether _check_file_conflict raises: a pair of patterns raises before any
\* pair, in the order of the two loops, is found in conflict.
CheckFileConflictRaises(task1, task2) ==
    LET n == Len(task2.file_patterns)
        pairs == (DOMAIN task1.file_patterns) \X (DOMAIN task2.file_patterns)
        at(pr) == (pr[1] - 1) * n + pr[2]
        raises(pr) == PatternsConflictRaises(task1.file_patterns[pr[1]],
                                             task2.file_patterns[pr[2]])
        conflict(pr) == _patterns_conflict(task1.file_patterns[pr[1]],
                                           task2.file_patterns[pr[2]])
    IN  /\ task1.task_id # task2.task_id
        /\ ~Contains(task1.conflicts_with, task2.task_id)
        /\ ~Contains(task2.conflicts_with, task1.task_id)
        /\ \E pr \in pairs :
               /\ raises(pr)
               /\ \A o \in pairs : at(o) < at(pr) => (~raises(o) /\ ~conflict(o))

(***************************************************************************)
(* _topological_sort_with_priority                                         *)
(***************************************************************************)
\* The key without the number of dependents: the id alone decides.
PriorityIgnoringDependents(task) == <<0, task.task_id>>

_get_task_priority(task) ==
    <<-Cardinality(reverse_dependency_graph[task.task_id]), task.task_id>>

\* available_tasks.sort(key=lambda tid: self._get_task_priority(self.tasks[tid]))
SortByPriority(available_tasks) ==
    SortStable(available_tasks,
               [i \in DOMAIN available_tasks |->
                   _get_task_priority(tasks[available_tasks[i]])])

RECURSIVE TopologicalLoop(_, _, _)
\* The while loop: the list of results once available_tasks has run empty.
\* A set of ids is iterated in the order hashOrder gives it.  (The lists
\* of the next iteration are bound as values: a, l and rs.)
TopologicalLoop(available_tasks, in_degree, res) ==
    IF available_tasks = <<>> THEN res
    ELSE LET sorted == SortByPriority(available_tasks)
             current_task == Head(sorted)
             dependents == InOrder(reverse_dependency_graph[current_task], hashOrder)
             lowered == [t \in DOMAIN in_degree |->
                            IF t \in Range(dependents) THEN in_degree[t] - 1
                            ELSE in_degree[t]]
             freed == SelectSeq(dependents, LAMBDA t : lowered[t] = 0)
         IN  CHOOSE r \in {TopologicalLoop(a, l, rs) :
                                a \in {Tail(sorted) \o freed}, l \in {lowered},
                                rs \in {Append(res, current_task)}} : TRUE

\* The list the loop ends with; the caller raises unless it holds every task.
TopologicalResult ==
    LET in_degree == [id \in DOMAIN tasks |-> Cardinality(dependency_graph[id])]
        available_tasks == SelectSeq(taskOrder, LAMBDA id : in_degree[id] = 0)
    IN  TopologicalLoop(available_tasks, in_degree, <<>>)

\* The check of the length of the result left out.
CircularDependencyUnchecked(res) == FALSE

\* The check that raises only when no task at all was ordered.
CircularDependencyOnlyWhenNothingSorted(res) ==
    res = <<>> /\ DOMAIN tasks # {}

\* if len(result) != len(self.tasks): raise ValueError(...)
CircularDependencyDetected(res) == Len(res) # Cardinality(DOMAIN tasks)

\* The sort done by removing the edges of dependency_graph as tasks are
\* emitted, instead of counting in a local in_degree.
TopologicalSortRemovingEdges ==
    /\ pc = "loaded"
    /\ LET res == TopologicalResult
       IN  IF CircularDependencyDetected(res)
           THEN /\ pc' = "error"
                /\ error' = CircularError
                /\ UNCHANGED <<sorted_tasks, waves, completed_tasks>>
           ELSE /\ pc' = "planning"
                /\ sorted_tasks' = res
                /\ waves' = <<>>
                /\ completed_tasks' = {}
                /\ UNCHANGED error
    /\ dependency_graph' = [id \in AllIds |-> {}]
    /\ UNCHANGED <<inputVars, tasks, taskOrder, reverse_dependency_graph,
                   hashOrder, result, run, prevResult>>

\* generate_execution_plan, up to the wave loop.
TopologicalSort ==
    /\ pc = "loaded"
    /\ LET res == TopologicalResult
       IN  IF CircularDependencyDetected(res)
           THEN /\ pc' = "error"
                /\ error' = CircularError
                /\ UNCHANGED <<sorted_tasks, waves, completed_tasks>>
           ELSE /\ pc' = "planning"
                /\ sorted_tasks' = res
                /\ waves' = <<>>
                /\ completed_tasks' = {}
                /\ UNCHANGED error
    /\ UNCHANGED <<inputVars, plannerVars, hashOrder, result, run, prevResult>>

(***************************************************************************)
(* generate_execution_plan: the wave loop                                  *)
(***************************************************************************)
\* Every task that is not completed counts as available, whatever it depends on.
AvailableTasksIgnoringDependencies ==
    SelectSeq(sorted_tasks, LAMBDA id : id \notin completed_tasks)

\* The ids of the tasks of sorted_tasks that are not completed and whose
\* dependencies are all completed, in the order of sorted_tasks.
AvailableTasks ==
    SelectSeq(sorted_tasks,
              LAMBDA id : /\ id \notin completed_tasks
                          /\ \A k \in DOMAIN tasks[id].depends_on :
                                 tasks[id].depends_on[k] \in completed_tasks)

\* The key of available_tasks.sort: (len(t.conflicts_with), t.task_id)
WaveSortKey(task) == <<Len(task.conflicts_with), task.task_id>>

\* The available tasks in the order in which this run iterates a set of them.
SortAvailableInHashOrder(available_tasks) ==
    InOrder(Range(available_tasks), hashOrder)

\* available_tasks.sort(key=lambda t: (len(t.conflicts_with), t.task_id))
SortAvailable(available_tasks) ==
    SortStable(available_tasks,
               [i \in DOMAIN available_tasks |->
                   WaveSortKey(tasks[available_tasks[i]])])

\* The dict with the default of the enabler flag instead of the task's.
WaveTaskDictDefaultEnabler(task) ==
    [task_id |-> task.task_id,
     size |-> task.size,
     expected_runtime_min |-> task.expected_runtime_min,
     tags |-> task.tags,
     enabler |-> FALSE,
     files |-> [k \in DOMAIN task.file_patterns |-> task.file_patterns[k].pattern]]

\* The dict appended to wave_tasks for a task.
WaveTaskDict(task) ==
    [task_id |-> task.task_id,
     size |-> task.size,
     expected_runtime_min |-> task.expected_runtime_min,
     tags |-> task.tags,
     enabler |-> task.enabler,
     files |-> [k \in DOMAIN task.file_patterns |-> task.file_patterns[k].pattern]]

\* The check that admits a task only beside a task selected before it.
CanAddOnlyBesideAnotherTask(task, wave_tasks) ==
    /\ wave_tasks # <<>>
    /\ \A i \in DOMAIN wave_tasks :
           ~_check_file_conflict(task, tasks[wave_tasks[i].task_id])

\* Whether the task conflicts with none of the tasks selected so far.
CanAdd(task, wave_tasks) ==
    \A i \in DOMAIN wave_tasks :
        ~_check_file_conflict(task, tasks[wave_tasks[i].task_id])

RECURSIVE PackWaveRaises(_, _)
\* Whether the scan raises: a conflict check raises before the task at hand
\* is found in conflict with a selected task.
PackWaveRaises(available_tasks, wave_tasks) ==
    IF available_tasks = <<>> THEN FALSE
    ELSE LET task == tasks[Head(available_tasks)]
             used_task_ids == {wave_tasks[i].task_id : i \in DOMAIN wave_tasks}
             selected(i) == tasks[wave_tasks[i].task_id]
             raises == \E i \in DOMAIN wave_tasks :
                           /\ CheckFileConflictRaises(task, selected(i))
                           /\ \A k \in 1..(i - 1) :
                                  /\ ~CheckFileConflictRaises(task, selected(k))
                                  /\ ~_check_file_conflict(task, selected(k))
         IN  IF task.task_id \in used_task_ids
             THEN PackWaveRaises(Tail(available_tasks), wave_tasks)
             ELSE IF raises THEN TRUE
             ELSE IF CanAdd(task, wave_tasks)
             THEN \E a \in {Tail(available_tasks)},
                     w \in {Append(wave_tasks, WaveTaskDict(task))} :
                      PackWaveRaises(a, w)
             ELSE PackWaveRaises(Tail(available_tasks), wave_tasks)

RECURSIVE PackWaveStoppingAtConflict(_, _)
\* The scan that ends at the first task in conflict with a selected task,
\* instead of going on to the next task.
PackWaveStoppingAtConflict(available_tasks, wave_tasks) ==
    IF available_tasks = <<>> THEN wave_tasks
    ELSE LET task == tasks[Head(available_tasks)]
         IN  IF CanAdd(task, wave_tasks)
             THEN PackWaveStoppingAtConflict(Tail(available_tasks),
                                             Append(wave_tasks, WaveTaskDict(task)))
             ELSE wave_tasks

RECURSIVE PackWave(_, _)
\* The greedy scan of the sorted available tasks: wave_tasks at its end.
PackWave(available_tasks, wave_tasks) ==
    IF available_tasks = <<>> THEN wave_tasks
    ELSE LET task == tasks[Head(available_tasks)]
             used_task_ids == {wave_tasks[i].task_id : i \in DOMAIN wave_tasks}
         IN  IF task.task_id \in used_task_ids
             THEN PackWave(Tail(available_tasks), wave_tasks)
             ELSE IF CanAdd(task, wave_tasks)
             THEN CHOOSE r \in {PackWave(a, w) :
                                    a \in {Tail(available_tasks)},
                                    w \in {Append(wave_tasks, WaveTaskDict(task))}} : TRUE
             ELSE PackWave(Tail(available_tasks), wave_tasks)

\* The runtimes of the wave added up.
WaveTotalTimeAsSum(wave_tasks) ==
    SumSeq([i \in DOMAIN wave_tasks |-> wave_tasks[i].expected_runtime_min])

\* max((t['expected_runtime_min'] for t in wave_tasks), default=0)
WaveTotalTime(wave_tasks) ==
    MaxSeq([i \in DOMAIN wave_tasks |-> wave_tasks[i].expected_runtime_min], 0)

\* The histogram with every size of the wave counted once.
SizeDistributionOfDistinctSizes(wave_tasks) ==
    [sz \in {wave_tasks[i].size : i \in DOMAIN wave_tasks} |-> 1]

_get_size_distribution(wave_tasks) ==
    [sz \in {wave_tasks[i].size : i \in DOMAIN wave_tasks} |->
        Cardinality({i \in DOMAIN wave_tasks : wave_tasks[i].size = sz})]

\* The wave record numbered with the count of waves before it.
WaveRecordNumberedFromZero(wave_tasks, number) ==
    [wave_number |-> number - 1,
     tasks |-> wave_tasks,
     parallel_task_count |-> Len(wave_tasks),
     estimated_wave_time_min |-> WaveTotalTime(wave_tasks),
     size_distribution |-> _get_size_distribution(wave_tasks)]

\* The wave record appended to waves.
WaveRecord(wave_tasks, number) ==
    [wave_number |-> number,
     tasks |-> wave_tasks,
     parallel_task_count |-> Len(wave_tasks),
     estimated_wave_time_min |-> WaveTotalTime(wave_tasks),
     size_distribution |-> _get_size_distribution(wave_tasks)]

\* One iteration of the while loop.
WaveIteration ==
    /\ pc = "planning"
    /\ completed_tasks # DOMAIN tasks
    /\ \E available_tasks \in {AvailableTasks} :
       \E wave_tasks \in {PackWave(SortAvailable(available_tasks), <<>>)} :
           IF available_tasks = <<>>
           THEN /\ pc' = "error"
                /\ error' = NoAvailableError
                /\ UNCHANGED <<waves, completed_tasks>>
           ELSE IF PackWaveRaises(SortAvailable(available_tasks), <<>>)
           THEN /\ pc' = "error"
                /\ error' = RepetitionError
                /\ UNCHANGED <<waves, completed_tasks>>
           ELSE /\ completed_tasks' =
                       completed_tasks
                           \cup {wave_tasks[i].task_id : i \in DOMAIN wave_tasks}
                /\ waves' = IF wave_tasks # <<>>
                            THEN Append(waves, WaveRecord(wave_tasks, Len(waves) + 1))
                            ELSE waves
                /\ UNCHANGED <<pc, error>>
    /\ UNCHANGED <<inputVars, plannerVars, hashOrder, sorted_tasks, result, run,
                   prevResult>>

(***************************************************************************)
(* generate_execution_plan: the summary                                    *)
(***************************************************************************)
\* n / d rounded to the nearest integer, a tie to the even one: Python's
\* round.  (The quotients of the model are far from a tie, where the float
\* the program rounds could fall on the other side.)
RoundDiv(n, d) ==
    LET q == n \div d
        r == n % d
    IN  IF 2 * r < d THEN q
        ELSE IF 2 * r > d THEN q + 1
        ELSE IF q % 2 = 0 THEN q ELSE q + 1

\* The longest wave instead of the sum of the waves.
TotalTimeAsMax(ws) == MaxSeq([i \in DOMAIN ws |-> ws[i].estimated_wave_time_min], 0)

\* sum(wave['estimated_wave_time_min'] for wave in waves)
TotalTime(ws) == SumSeq([i \in DOMAIN ws |-> ws[i].estimated_wave_time_min])

\* sum(task.expected_runtime_min for task in self.tasks.values())
SequentialTime ==
    SumSeq([i \in DOMAIN taskOrder |-> tasks[taskOrder[i]].expected_runtime_min])

\* The dict with all of the time saved when there is no time to spend.
ExecutionPlanFullSavingsWhenIdle(ws) ==
    LET total_time == TotalTime(ws)
        total_tasks == Cardinality(DOMAIN tasks)
        sequential == SequentialTime
    IN  [execution_plan |->
          [waves |-> ws,
           summary |->
             [total_waves |-> Len(ws),
              total_tasks |-> total_tasks,
              estimated_total_time_min |-> total_time,
              average_parallelism |->
                  IF ws # <<>> THEN RoundDiv(total_tasks * 100, Len(ws)) ELSE 0,
              max_parallelism |->
                  IF ws # <<>>
                  THEN MaxSeq([i \in DOMAIN ws |-> ws[i].parallel_task_count], 0)
                  ELSE 0,
              efficiency_metrics |->
                [sequential_time_min |-> sequential,
                 parallel_time_min |-> total_time,
                 time_savings_percent |->
                     IF sequential > 0
                     THEN RoundDiv((sequential - total_time) * 1000, sequential)
                     ELSE 1000]]]]

\* The dict returned.  average_parallelism is in hundredths and
\* time_savings_percent in tenths, the digits that round() keeps.
ExecutionPlan(ws) ==
    LET total_time == TotalTime(ws)
        total_tasks == Cardinality(DOMAIN tasks)
        sequential == SequentialTime
    IN  [execution_plan |->
          [waves |-> ws,
           summary |->
             [total_waves |-> Len(ws),
              total_tasks |-> total_tasks,
              estimated_total_time_min |-> total_time,
              average_parallelism |->
                  IF ws # <<>> THEN RoundDiv(total_tasks * 100, Len(ws)) ELSE 0,
              max_parallelism |->
                  IF ws # <<>>
                  THEN MaxSeq([i \in DOMAIN ws |-> ws[i].parallel_task_count], 0)
                  ELSE 0,
              efficiency_metrics |->
                [sequential_time_min |-> sequential,
                 parallel_time_min |-> total_time,
                 time_savings_percent |->
                     IF sequential > 0
                     THEN RoundDiv((sequential - total_time) * 1000, sequential)
                     ELSE 0]]]]

\* The loop has ended: the plan is returned.
ReturnPlan ==
    /\ pc = "planning"
    /\ completed_tasks = DOMAIN tasks
    /\ result' = ExecutionPlan(waves)
    /\ pc' = "done"
    /\ UNCHANGED <<inputVars, plannerVars, hashOrder, sorted_tasks, waves,
                   completed_tasks, error, run, prevResult>>

(***************************************************************************)
(* A further run of the script on the same feeds: a new process, with a    *)
(* new iteration order of its sets when str hashes are randomized.         *)
(***************************************************************************)
HashOrders == IterationOrders(TaskIds)

Rerun ==
    /\ pc \in {"done", "error"}
    /\ run < MaxRuns
    /\ run' = run + 1
    /\ prevResult' = result
    /\ hashOrder' \in (IF hashRandomized THEN HashOrders ELSE {hashOrder})
    /\ tasks' = <<>>
    /\ taskOrder' = <<>>
    /\ dependency_graph' = [id \in AllIds |-> {}]
    /\ reverse_dependency_graph' = [id \in AllIds |-> {}]
    /\ pc' = "constructed"
    /\ sorted_tasks' = <<>>
    /\ waves' = <<>>
    /\ completed_tasks' = {}
    /\ result' = NoResult
    /\ error' = NoError
    /\ UNCHANGED inputVars

(***************************************************************************)
(* The feeds of the model.                                                 *)
(***************************************************************************)
(***************************************************************************)
(* A further run of the script on the same feeds in another order: the     *)
(* records of each feed, the ids of each dependency list and the patterns  *)
(* of each pattern list permuted.                                          *)
(***************************************************************************)
\* Every list with the elements of s in some order.
SeqPermutations(s) ==
    {[i \in DOMAIN s |-> s[p[i]]] : p \in IterationOrders(DOMAIN s)}

\* The dependency feed with its records permuted and the depends_on of each
\* record permuted.
PermutedDependencies ==
    LET lists == UNION {SeqPermutations(dependencies[i].depends_on) :
                            i \in DOMAIN dependencies}
        inner == {f \in [DOMAIN dependencies -> lists] :
                     \A i \in DOMAIN dependencies :
                         f[i] \in SeqPermutations(dependencies[i].depends_on)}
    IN  UNION {SeqPermutations([i \in DOMAIN dependencies |->
                                   [dependencies[i] EXCEPT !.depends_on = f[i]]]) :
                   f \in inner}

\* The conflict feed with its records permuted and the files of each record
\* permuted.
PermutedFilePatterns ==
    LET lists == UNION {SeqPermutations(file_patterns_data[i].files) :
                            i \in DOMAIN file_patterns_data}
        inner == {f \in [DOMAIN file_patterns_data -> lists] :
                     \A i \in DOMAIN file_patterns_data :
                         f[i] \in SeqPermutations(file_patterns_data[i].files)}
    IN  UNION {SeqPermutations([i \in DOMAIN file_patterns_data |->
                                   [file_patterns_data[i] EXCEPT !.files = f[i]]]) :
                   f \in inner}

RerunPermuted ==
    /\ pc \in {"done", "error"}
    /\ run < MaxRuns
    /\ run' = run + 1
    /\ prevResult' = result
    /\ dependencies' \in PermutedDependencies
    /\ file_patterns_data' \in PermutedFilePatterns
    /\ tasks' = <<>>
    /\ taskOrder' = <<>>
    /\ dependency_graph' = [id \in AllIds |-> {}]
    /\ reverse_dependency_graph' = [id \in AllIds |-> {}]
    /\ pc' = "constructed"
    /\ sorted_tasks' = <<>>
    /\ waves' = <<>>
    /\ completed_tasks' = {}
    /\ result' = NoResult
    /\ error' = NoError
    /\ UNCHANGED <<hashRandomized, hashOrder>>

\* task_data.get('expected_runtime_min', 20) and task_data.get('size', 'M')
DefaultRuntime == 20
DefaultSize == "M"

\* Three patterns of the conflict feed: two files and a glob over both.
PatA == [pattern |-> <<"s", "/", "a">>, type |-> "exact"]
PatB == [pattern |-> <<"s", "/", "b">>, type |-> "exact"]
PatGlob == [pattern |-> <<"s", "/", "*">>, type |-> "glob"]

\* The dependency lists: at most MaxDeps ids each.
DepSets(ids) == {S \in SUBSET ids : Cardinality(S) <= MaxDeps}
\* Any tasks, the task itself included: cycles occur.
AnyDeps == [TaskIds -> DepSets(TaskIds)]
\* Tasks with a smaller id only: acyclic.
ForwardDeps == {d \in AnyDeps : \A id \in TaskIds : \A x \in d[id] : IdLess(x, id)}
\* Tasks with a smaller id, and the id of no task.
GhostDeps ==
    {d \in [TaskIds -> DepSets(AllIds)] :
        \A id \in TaskIds : \A x \in d[id] : x = GhostId \/ IdLess(x, id)}

\* Tasks with a smaller id and the task itself: acyclic, or cyclic by a task
\* that waits for itself.
SelfOrForwardDeps ==
    {d \in AnyDeps : \A id \in TaskIds : \A x \in d[id] : x = id \/ IdLess(x, id)}

DefaultRuntimes == {[id \in TaskIds |-> DefaultRuntime]}
AnyRuntimes == [TaskIds -> 1..MaxRuntime]

NoFiles == {[id \in TaskIds |-> <<>>]}
\* No pattern or one of the three, for each task.
AnyFiles == [TaskIds -> {<<>>, <<PatA>>, <<PatB>>, <<PatGlob>>}]
\* No pattern or the same file, for each task.
SameFiles == [TaskIds -> {<<>>, <<PatA>>}]
\* No pattern at all, or the same file for every task.
UniformFiles == {[id \in TaskIds |-> <<>>], [id \in TaskIds |-> <<PatA>>]}

\* The explicit conflicts the conflict feed declares (the 'conflicts_with' of
\* its records): none, or one task that names one other task.
NoExplicit == {[id \in TaskIds |-> {}]}
OneExplicit ==
    NoExplicit \cup
    {[id \in TaskIds |-> IF id = e[1] THEN {e[2]} ELSE {}] :
        e \in {p \in TaskIds \X TaskIds : p[1] # p[2]}}

(***************************************************************************)
(* Patterns of the conflict feed: exact paths, globs and regexes, some of  *)
(* them declared with a type that their text belies.                       *)
(***************************************************************************)
PatternUniverse ==
    {FilePattern(Chars("a/b.ts"), "exact"),
     FilePattern(Chars("a/c.ts"), "exact"),
     FilePattern(Chars("src/services/*.ts"), "glob"),
     FilePattern(Chars("src/services/foo.ts"), "exact"),
     FilePattern(Chars("src/handlers/foo.ts"), "exact"),
     FilePattern(Chars("^src/a\\.ts$"), "exact"),
     FilePattern(Chars("src/a.ts"), "exact"),
     FilePattern(Chars("^src/a\\.ts$"), "regex"),
     FilePattern(Chars("src/**/foo.ts"), "glob"),
     FilePattern(Chars("src/foo.ts"), "exact"),
     FilePattern(Chars("src/a/foo.ts"), "exact"),
     FilePattern(Chars("src/a/b/foo.ts"), "exact"),
     FilePattern(Chars("a/b/c/services/.*"), "regex"),
     FilePattern(Chars("a/b/c/utils/.*"), "regex"),
     FilePattern(Chars("src/services/.*"), "regex"),
     FilePattern(Chars("src/.*/foo.ts"), "glob"),
     FilePattern(Chars("lib/utils/.*"), "regex"),
     FilePattern(Chars("^src/services/.*"), "regex"),
     FilePattern(Chars("docs/*.md"), "glob")}

\* Patterns that re does not compile, beside some that it does: an unclosed
\* group as a regex and in a glob, and a repeat count over MAXREPEAT.
MalformedUniverse ==
    {FilePattern(Chars("src/("), "regex"),
     FilePattern(Chars("src/(*"), "glob"),
     FilePattern(Chars("src/a{99999999999}"), "regex"),
     FilePattern(Chars("src/a.ts"), "exact"),
     FilePattern(Chars("src/.*"), "regex"),
     FilePattern(Chars("lib/.*"), "regex")}

\* No dependencies at all.
NoDeps == {[id \in TaskIds |-> {}]}

\* One pattern of U for the first task, one for the second, none for the others.
PairFiles(U) ==
    {[id \in TaskIds |->
         IF id = IdUniverse[1] THEN <<p>>
         ELSE IF id = IdUniverse[2] THEN <<q>> ELSE <<>>] :
     p \in U, q \in U}

\* A pattern list for the first task and one for the second, none for the
\* others: one file; two files; a regex with a repeat count over MAXREPEAT
\* before a file.
PermutableFiles ==
    LET X == FilePattern(Chars("src/a.ts"), "exact")
        Y == FilePattern(Chars("src/b.ts"), "exact")
        R == FilePattern(Chars("src/a{99999999999}"), "regex")
        L == {<<X>>, <<Y, X>>, <<R, X>>}
    IN  {[id \in TaskIds |->
             IF id = IdUniverse[1] THEN p
             ELSE IF id = IdUniverse[2] THEN q ELSE <<>>] :
         p \in L, q \in L}

\* The size, tags and enabler of every record: the defaults of load_data, or
\* any of two sizes, two tag lists and both flags.
DefaultFields == {[id \in TaskIds |-> [size |-> DefaultSize, tags |-> <<>>, enabler |-> FALSE]]}
AnyFields ==
    [TaskIds -> [size : {"S", "L"}, tags : {<<>>, <<"x", "y">>}, enabler : BOOLEAN]]

InitRecords(deps, runtimes, files, explicit, randomized, fields) ==
    /\ \E d \in deps, r \in runtimes, fd \in fields :
           dependencies =
               [i \in 1..NumTasks |->
                   [task_id |-> IdUniverse[i],
                    size |-> fd[IdUniverse[i]].size,
                    expected_runtime_min |-> r[IdUniverse[i]],
                    depends_on |-> Ascending(d[IdUniverse[i]]),
                    tags |-> fd[IdUniverse[i]].tags,
                    enabler |-> fd[IdUniverse[i]].enabler]]
    /\ \E f \in files, x \in explicit :
           file_patterns_data =
               [i \in 1..NumTasks |->
                   [task_id |-> IdUniverse[i],
                    conflicts_with |-> Ascending(x[IdUniverse[i]]),
                    files |-> f[IdUniverse[i]]]]
    /\ hashRandomized = randomized
    /\ hashOrder \in (IF randomized THEN HashOrders ELSE {Ascending(TaskIds)})
    /\ tasks = <<>>
    /\ taskOrder = <<>>
    /\ dependency_graph = [id \in AllIds |-> {}]
    /\ reverse_dependency_graph = [id \in AllIds |-> {}]
    /\ pc = "constructed"
    /\ sorted_tasks = <<>>
    /\ waves = <<>>
    /\ completed_tasks = {}
    /\ result = NoResult
    /\ error = NoError
    /\ run = 1
    /\ prevResult = NoResult

\* The first n records of both feeds, for every n up to NumTasks, the empty
\* feeds included; every task takes no time or one minute.
InitCount ==
    /\ \E n \in 0..NumTasks, d \in ForwardDeps, r \in [TaskIds -> 0..1] :
           /\ dependencies =
                  [i \in 1..n |->
                      [task_id |-> IdUniverse[i],
                       size |-> DefaultSize,
                       expected_runtime_min |-> r[IdUniverse[i]],
                       depends_on |-> Ascending(d[IdUniverse[i]]),
                       tags |-> <<>>,
                       enabler |-> FALSE]]
           /\ file_patterns_data =
                  [i \in 1..n |->
                      [task_id |-> IdUniverse[i],
                       conflicts_with |-> <<>>,
                       files |-> <<>>]]
    /\ hashRandomized = FALSE
    /\ hashOrder = Ascending(TaskIds)
    /\ tasks = <<>>
    /\ taskOrder = <<>>
    /\ dependency_graph = [id \in AllIds |-> {}]
    /\ reverse_dependency_graph = [id \in AllIds |-> {}]
    /\ pc = "constructed"
    /\ sorted_tasks = <<>>
    /\ waves = <<>>
    /\ completed_tasks = {}
    /\ result = NoResult
    /\ error = NoError
    /\ run = 1
    /\ prevResult = NoResult

InitWith(deps, runtimes, files, explicit, randomized) ==
    InitRecords(deps, runtimes, files, explicit, randomized, DefaultFields)

\* Any dependency lists, cyclic ones included.
Init == InitWith(AnyDeps, DefaultRuntimes, UniformFiles, NoExplicit, FALSE)
\* Dependency lists that name the id of no task.
InitGhost == InitWith(GhostDeps, DefaultRuntimes, NoFiles, NoExplicit, FALSE)
\* Resource patterns and explicit conflicts.
InitConflict == InitWith(ForwardDeps, DefaultRuntimes, AnyFiles, OneExplicit, FALSE)
\* Expected runtimes.
InitTime == InitWith(ForwardDeps, AnyRuntimes, UniformFiles, NoExplicit, FALSE)
\* Two tasks with one pattern each, of every kind.
InitPatterns ==
    InitWith(NoDeps, DefaultRuntimes, PairFiles(PatternUniverse), NoExplicit, FALSE)
\* Two tasks with one pattern each, malformed ones included, and explicit
\* conflicts.
InitMalformed ==
    InitWith(NoDeps, DefaultRuntimes, PairFiles(MalformedUniverse), OneExplicit, FALSE)
\* Sizes, tags and enabler flags.
InitFields ==
    InitRecords(NoDeps, DefaultRuntimes, UniformFiles, NoExplicit, FALSE, AnyFields)
\* Feeds whose planning ends with a plan, and feeds with a task that waits
\* for itself.
InitLive == InitWith(SelfOrForwardDeps, DefaultRuntimes, UniformFiles, NoExplicit, FALSE)

\* Pattern lists of two patterns, for runs on the feeds in another order.
InitPermute ==
    InitWith(ForwardDeps, DefaultRuntimes, PermutableFiles, NoExplicit, FALSE)

\* Randomized str hashes.
InitHash == InitWith(ForwardDeps, DefaultRuntimes, SameFiles, NoExplicit, TRUE)

Next == LoadData \/ TopologicalSort \/ WaveIteration \/ ReturnPlan \/ Rerun

\* The runs of the script, each on the feeds of the run before it in another
\* order.
NextPermuted ==
    LoadData \/ TopologicalSort \/ WaveIteration \/ ReturnPlan \/ RerunPermuted

Spec == Init /\ [][Next]_vars
SpecGhost == InitGhost /\ [][Next]_vars
SpecConflict == InitConflict /\ [][Next]_vars
SpecTime == InitTime /\ [][Next]_vars
SpecHash == InitHash /\ [][Next]_vars
SpecPatterns == InitPatterns /\ [][Next]_vars
SpecFields == InitFields /\ [][Next]_vars
SpecMalformed == InitMalformed /\ [][Next]_vars
SpecCount == InitCount /\ [][Next]_vars
SpecPermute == InitPermute /\ [][NextPermuted]_vars
\* The script runs to its end: main calls load_data and generate_execution_plan
\* one after the other, and the while loop goes on to its next iteration.
SpecLive ==
    /\ InitLive /\ [][Next]_vars
    /\ WF_vars(LoadData)
    /\ WF_vars(TopologicalSort)
    /\ WF_vars(WaveIteration)
    /\ WF_vars(ReturnPlan)

(***************************************************************************)
(* What the feeds say, for the properties below.                           *)
(***************************************************************************)
\* The dependency list of a task in the dependency feed.
FeedDeps(id) == Range(LastRecord(id).depends_on)

\* The expected runtime of a task in the dependency feed.
FeedRuntime(id) == LastRecord(id).expected_runtime_min

RECURSIVE DependsOnWithin(_, _, _)
\* Whether a chain of at most n dependency edges leads from task a to id b.
DependsOnWithin(a, b, n) ==
    /\ n > 0
    /\ a \in LoadedIds
    /\ \/ b \in FeedDeps(a)
       \/ \E c \in FeedDeps(a) : DependsOnWithin(c, b, n - 1)

\* The dependency graph of the feed has a cycle.
CyclicFeed == \E id \in LoadedIds : DependsOnWithin(id, id, Cardinality(LoadedIds))

\* Some dependency list names an id that is the id of no task.
DanglingFeed == \E id \in LoadedIds : FeedDeps(id) \ LoadedIds # {}

\* The ids of the tasks of a wave, and the numbers of the waves with a task.
WaveIds(w) == {w.tasks[i].task_id : i \in DOMAIN w.tasks}
WaveNumbersOf(ws, id) == {ws[k].wave_number : k \in {n \in DOMAIN ws : id \in WaveIds(ws[n])}}

\* How many task records of the waves carry the id.
Occurrences(ws, id) ==
    Cardinality({p \in (DOMAIN ws) \X (1..NumTasks) :
                    p[2] \in DOMAIN ws[p[1]].tasks /\ ws[p[1]].tasks[p[2]].task_id = id})

ReturnedWaves == result.execution_plan.waves

(***************************************************************************)
(* C1.  In every plan returned, each task of the feed is in exactly one    *)
(* wave, and each of its dependencies is in a wave with a smaller number.  *)
(***************************************************************************)
C1_EachTaskOnceAfterItsDependencies ==
    pc = "done" =>
        \A id \in LoadedIds :
            /\ Occurrences(ReturnedWaves, id) = 1
            /\ \A d \in FeedDeps(id) :
                   /\ WaveNumbersOf(ReturnedWaves, d) # {}
                   /\ \A n \in WaveNumbersOf(ReturnedWaves, d),
                         m \in WaveNumbersOf(ReturnedWaves, id) : n < m

\* A plan of several waves in which a task with a dependency and a task kept
\* out of the first wave by a conflict alone both occur.
C1_Witness ==
    /\ pc = "done"
    /\ \E id \in LoadedIds : FeedDeps(id) # {}
    /\ \E id \in LoadedIds :
           FeedDeps(id) = {} /\ WaveNumbersOf(ReturnedWaves, id) # {1}

(***************************************************************************)
(* C3.  With a cycle in the dependency graph, planning raises the circular *)
(* dependency error with no wave formed, and returns no plan.              *)
(***************************************************************************)
C3_CycleRaisesBeforeAnyWave ==
    (CyclicFeed /\ pc \notin {"constructed", "loaded"}) =>
        /\ pc = "error"
        /\ error = CircularError
        /\ waves = <<>>
        /\ result = NoResult

\* The run has failed on a cycle of two or more tasks, and on a task that
\* depends on itself.
C3_Witness ==
    /\ pc = "error"
    /\ \E id \in LoadedIds : id \in FeedDeps(id)
    /\ \E a \in LoadedIds, b \in LoadedIds :
           a # b /\ b \in FeedDeps(a) /\ a \in FeedDeps(b)

\* The explicit conflicts that the conflict feed declares for a task.
FeedExplicit(id) ==
    LET at == {i \in DOMAIN file_patterns_data : file_patterns_data[i].task_id = id}
    IN  IF at = {} THEN {}
        ELSE Range(file_patterns_data[CHOOSE i \in at : \A k \in at : k <= i]
                       .conflicts_with)

\* conflict(A, B) of the data model: declared in either direction in the
\* conflict feed, or some pattern of A overlaps some pattern of B.
FeedConflict(a, b) ==
    \/ b \in FeedExplicit(a)
    \/ a \in FeedExplicit(b)
    \/ \E i \in DOMAIN FilePatternMapGet(a), j \in DOMAIN FilePatternMapGet(b) :
           _patterns_conflict(FilePatternMapGet(a)[i], FilePatternMapGet(b)[j])

(***************************************************************************)
(* C2.  No two distinct tasks of a wave of a returned plan conflict,       *)
(* whether by an explicit conflict of the conflict feed, in either         *)
(* direction, or by overlapping resource patterns.                         *)
(***************************************************************************)
C2_NoConflictWithinAWave ==
    pc = "done" =>
        \A k \in DOMAIN ReturnedWaves :
            \A a \in WaveIds(ReturnedWaves[k]), b \in WaveIds(ReturnedWaves[k]) :
                a # b => ~FeedConflict(a, b)

(***************************************************************************)
(* C5.  A feed with a dependency on the id of no task is rejected by       *)
(* load_data: the run never gets past loading.                             *)
(***************************************************************************)
C5_DanglingDependencyRejectedAtLoad ==
    DanglingFeed => pc \notin {"loaded", "planning", "done"}

(***************************************************************************)
(* C8.  For A (no dependencies, no conflicts), B (no dependencies, in      *)
(* conflict with A) and C (depends on A) the plan is wave 1 = {A}, wave 2  *)
(* = {B, C}, with total_waves 2 and max_parallelism 2.                     *)
(***************************************************************************)
ThreeTaskFeed ==
    /\ LoadedIds = {"A", "B", "C"}
    /\ FeedDeps("A") = {} /\ FeedDeps("B") = {} /\ FeedDeps("C") = {"A"}
    /\ FeedExplicit("A") = {} /\ FeedExplicit("B") = {"A"} /\ FeedExplicit("C") = {}
    /\ \A id \in LoadedIds : FilePatternMapGet(id) = <<>>

C8_ThreeTaskPlan ==
    (ThreeTaskFeed /\ pc = "done") =>
        /\ [k \in DOMAIN ReturnedWaves |-> WaveIds(ReturnedWaves[k])]
               = <<{"A"}, {"B", "C"}>>
        /\ result.execution_plan.summary.total_waves = 2
        /\ result.execution_plan.summary.max_parallelism = 2

(***************************************************************************)
(* C4.  A further run on the same feeds returns the same plan as the run   *)
(* before it (the same waves, the same tasks in the same order, the same   *)
(* summary), whatever order the two runs iterate their sets in.            *)
(***************************************************************************)
C4_SecondRunReturnsTheSamePlan ==
    (run > 1 /\ pc \in {"done", "error"}) => result = prevResult

\* A second run has returned a plan with a wave of several tasks, for a feed
\* in which a task has several dependents, under an iteration order that is
\* not the ascending one.
C4_Witness ==
    /\ run = 2
    /\ pc = "done"
    /\ hashOrder # Ascending(TaskIds)
    /\ \E id \in LoadedIds : Cardinality(reverse_dependency_graph[id]) >= 2
    /\ \E k \in DOMAIN ReturnedWaves : Len(ReturnedWaves[k].tasks) >= 2

\* The tasks that are ready when wave k of ws is formed: in no earlier wave,
\* every dependency in an earlier wave.
CompletedBefore(ws, k) == UNION {WaveIds(ws[n]) : n \in 1..(k - 1)}
ReadyBefore(ws, k) ==
    {id \in DOMAIN tasks :
        /\ id \notin CompletedBefore(ws, k)
        /\ Range(tasks[id].depends_on) \subseteq CompletedBefore(ws, k)}

\* The candidate that is smallest by (number of explicit conflicts, id), the
\* explicit conflicts of a task being those the conflict feed declares for it.
FirstCandidate(R) ==
    CHOOSE id \in R :
        \A o \in R \ {id} :
            KeyLess(<<Cardinality(FeedExplicit(id)), id>>,
                    <<Cardinality(FeedExplicit(o)), o>>)

(***************************************************************************)
(* C6.  Every wave is packed from a non-empty ready set, is not empty and  *)
(* holds the candidate that is smallest by (number of explicit conflicts,  *)
(* id); when every two candidates conflict, it holds that task alone.      *)
(***************************************************************************)
C6_WaveHoldsTheFirstCandidate ==
    \A k \in DOMAIN waves :
        LET R == ReadyBefore(waves, k)
        IN  /\ R # {}
            /\ waves[k].tasks # <<>>
            /\ FirstCandidate(R) \in WaveIds(waves[k])
            /\ (\A a \in R, b \in R : a # b => FeedConflict(a, b))
                   => WaveIds(waves[k]) = {FirstCandidate(R)}

(***************************************************************************)
(* C7.  Every wave is a maximal conflict-free subset of the tasks that     *)
(* were ready when it was formed: no two tasks of the wave conflict, and   *)
(* each ready task left out of it conflicts with a task of the wave.       *)
(***************************************************************************)
C7_WaveIsMaximalConflictFree ==
    \A k \in DOMAIN waves :
        LET R == ReadyBefore(waves, k)
            W == WaveIds(waves[k])
        IN  /\ W \subseteq R
            /\ \A a \in W, b \in W : a # b => ~FeedConflict(a, b)
            /\ \A id \in R \ W : \E a \in W : FeedConflict(id, a)

Summary == result.execution_plan.summary

\* The greatest number of a non-empty set of numbers.
SetMax(S) == CHOOSE x \in S : \A y \in S : y <= x

(***************************************************************************)
(* C9.  In every plan returned the parallel time is the sum of the wave    *)
(* durations, the sequential time the sum of the expected runtimes of all  *)
(* tasks of the feed, and the parallel time is at most the sequential.     *)
(***************************************************************************)
C9_ParallelAndSequentialTime ==
    pc = "done" =>
        LET durations == [k \in DOMAIN ReturnedWaves |->
                             ReturnedWaves[k].estimated_wave_time_min]
            ids == Ascending(LoadedIds)
            runtimes == [i \in DOMAIN ids |-> FeedRuntime(ids[i])]
        IN  /\ Summary.efficiency_metrics.parallel_time_min = SumSeq(durations)
            /\ Summary.estimated_total_time_min = SumSeq(durations)
            /\ Summary.efficiency_metrics.sequential_time_min = SumSeq(runtimes)
            /\ Summary.efficiency_metrics.parallel_time_min
                   <= Summary.efficiency_metrics.sequential_time_min

\* A plan of several waves, one of them of several tasks, whose parallel time
\* is less than its sequential time.
C9_Witness ==
    /\ pc = "done"
    /\ Len(ReturnedWaves) >= 2
    /\ \E k \in DOMAIN ReturnedWaves : Len(ReturnedWaves[k].tasks) >= 2
    /\ Summary.efficiency_metrics.parallel_time_min
           < Summary.efficiency_metrics.sequential_time_min

(***************************************************************************)
(* C10.  The duration of every wave is the greatest expected runtime of    *)
(* the tasks of the wave.                                                  *)
(***************************************************************************)
C10_WaveDurationIsTheMaximum ==
    /\ \A k \in DOMAIN waves :
           waves[k].estimated_wave_time_min
               = SetMax({FeedRuntime(id) : id \in WaveIds(waves[k])})
    /\ pc = "done" => ReturnedWaves = waves

\* A wave of tasks with different expected runtimes.
C10_Witness ==
    \E k \in DOMAIN waves :
        \E a \in WaveIds(waves[k]), b \in WaveIds(waves[k]) :
            FeedRuntime(a) # FeedRuntime(b)

\* The tasks that can be emitted after the first n ids of order: not among
\* them, every dependency among them.
EmittableAfter(order, n) ==
    LET emitted == Range(SubSeq(order, 1, n))
    IN  {id \in LoadedIds \ emitted : FeedDeps(id) \subseteq emitted}

\* The number of tasks of the feed that depend on the task.
DependentCount(id) == Cardinality({t \in LoadedIds : id \in FeedDeps(t)})

(***************************************************************************)
(* C11.  The order the topological sort returns for an acyclic feed holds  *)
(* every task id exactly once, every task after all of its dependencies,   *)
(* and at each position the task that is smallest by (-number of           *)
(* dependents, id) among the tasks whose dependencies were all emitted.    *)
(***************************************************************************)
C11_GlobalOrderIsPrioritizedTopological ==
    (pc \in {"planning", "done"}) =>
        /\ Len(sorted_tasks) = Cardinality(LoadedIds)
        /\ Range(sorted_tasks) = LoadedIds
        /\ \A k \in DOMAIN sorted_tasks :
               LET E == EmittableAfter(sorted_tasks, k - 1)
                   t == sorted_tasks[k]
               IN  /\ t \in E
                   /\ \A o \in E \ {t} :
                          KeyLess(<<0 - DependentCount(t), t>>,
                                  <<0 - DependentCount(o), o>>)

\* An order was returned in which a task with more dependents is emitted
\* ahead of a task with a smaller id that could have been emitted too.
C11_Witness ==
    /\ pc = "done"
    /\ \E k \in DOMAIN sorted_tasks :
           \E o \in EmittableAfter(sorted_tasks, k - 1) :
               /\ IdLess(o, sorted_tasks[k])
               /\ DependentCount(sorted_tasks[k]) > DependentCount(o)

\* A Task with the given explicit conflicts.
WithConflicts(task, ids) == [task EXCEPT !.conflicts_with = Ascending(ids)]

C13_RegexLikeTextIsSearchedAsRegex ==
    \A a \in DOMAIN tasks, b \in DOMAIN tasks :
        \A i \in DOMAIN tasks[a].file_patterns, j \in DOMAIN tasks[b].file_patterns :
            LET p == tasks[a].file_patterns[i]
                q == tasks[b].file_patterns[j]
                regexLike(text) ==
                    \/ StrIn(Chars("\\."), text) \/ StrIn(Chars(".*"), text)
                    \/ StrIn(Chars("^"), text) \/ StrIn(Chars("$"), text)
            IN  (regexLike(p.pattern) /\ q.type = "exact" /\ ~regexLike(q.pattern))
                    => /\ _patterns_conflict(p, q) = ReSearch(p.pattern, q.pattern)
                       /\ _patterns_conflict(q, p) = ReSearch(p.pattern, q.pattern)

(***************************************************************************)
(* C14.  In a glob "**/" stands for any number of directory levels, none   *)
(* included, and "*" for a run of characters other than "/": the glob      *)
(* src/**/foo.ts matches src/foo.ts, src/a/foo.ts and src/a/b/foo.ts, and  *)
(* so conflicts with each of them as an exact path.                        *)
(***************************************************************************)
C14_DoubleStarMatchesAnyDepth ==
    LET glob == FilePattern(Chars("src/**/foo.ts"), "glob")
        paths == {Chars("src/foo.ts"), Chars("src/a/foo.ts"), Chars("src/a/b/foo.ts")}
    IN  \A a \in DOMAIN tasks, b \in DOMAIN tasks :
            \A i \in DOMAIN tasks[a].file_patterns, j \in DOMAIN tasks[b].file_patterns :
                LET p == tasks[a].file_patterns[i]
                    q == tasks[b].file_patterns[j]
                IN  (p = glob /\ q.type = "exact" /\ q.pattern \in paths)
                        => /\ matches(p, q.pattern)
                           /\ _patterns_conflict(p, q)

(***************************************************************************)
(* C15.  For patterns without regex-like text: two exact patterns overlap  *)
(* exactly when their strings are equal, and an exact pattern overlaps a   *)
(* glob exactly when the glob matches the exact path.  So the glob         *)
(* src/services/*.ts overlaps src/services/foo.ts and does not overlap     *)
(* src/handlers/foo.ts, and the glob src/**/foo.ts, which matches          *)
(* src/foo.ts, src/a/foo.ts and src/a/b/foo.ts, overlaps each of them.     *)
(***************************************************************************)
C15_ExactAndGlobOverlap ==
    \A a \in DOMAIN tasks, b \in DOMAIN tasks :
        \A i \in DOMAIN tasks[a].file_patterns, j \in DOMAIN tasks[b].file_patterns :
            LET p == tasks[a].file_patterns[i]
                q == tasks[b].file_patterns[j]
                plain(fp) == ActualType(fp) = fp.type
                services == FilePattern(Chars("src/services/*.ts"), "glob")
                deep == FilePattern(Chars("src/**/foo.ts"), "glob")
            IN  (plain(p) /\ plain(q) /\ p.type = "exact") =>
                    /\ q.type = "exact"
                           => _patterns_conflict(p, q) = (p.pattern = q.pattern)
                    /\ (q = services /\ p.pattern = Chars("src/services/foo.ts"))
                           => _patterns_conflict(q, p) /\ _patterns_conflict(p, q)
                    /\ (q = services /\ p.pattern = Chars("src/handlers/foo.ts"))
                           => ~_patterns_conflict(q, p) /\ ~_patterns_conflict(p, q)
                    /\ (q = deep /\ p.pattern \in {Chars("src/foo.ts"),
                                                    Chars("src/a/foo.ts"),
                                                    Chars("src/a/b/foo.ts")})
                           => _patterns_conflict(q, p) /\ _patterns_conflict(p, q)

(***************************************************************************)
(* C16.  A glob or regex that does not compile never makes matching, the   *)
(* conflict check or planning raise: it matches no path, the task set is   *)
(* planned to the end, and the tasks that the conflict feed declares in    *)
(* conflict are still in different waves.                                  *)
(***************************************************************************)
C16_MalformedPatternNeverRaises ==
    LET loaded == UNION {Range(tasks[id].file_patterns) : id \in DOMAIN tasks}
        regexOf(fp) == IF fp.type = "glob" THEN GlobToRegex(fp.pattern)
                       ELSE fp.pattern
        malformed(fp) == /\ fp.type \in {"regex", "glob"}
                         /\ ReCompile(regexOf(fp)).failed # ""
    IN  (\E fp \in loaded : malformed(fp)) =>
            /\ pc # "error"
            /\ \A fp \in loaded :
                   malformed(fp) =>
                       /\ ~MatchesRaises(fp)
                       /\ \A q \in loaded : ~matches(fp, q.pattern)
            /\ pc = "done" =>
                   \A k \in DOMAIN ReturnedWaves :
                       \A a \in WaveIds(ReturnedWaves[k]), b \in WaveIds(ReturnedWaves[k]) :
                           a # b => b \notin FeedExplicit(a)

(***************************************************************************)
(* C17.  In every plan returned, the record of a task in its wave carries  *)
(* the enabler flag, the size and the tags of the task's record in the     *)
(* dependency feed, unchanged.                                             *)
(***************************************************************************)
C17_FieldsCarriedToTheWaveRecord ==
    pc = "done" =>
        /\ \A id \in LoadedIds : \E k \in DOMAIN ReturnedWaves : id \in WaveIds(ReturnedWaves[k])
        /\ \A k \in DOMAIN ReturnedWaves :
               \A i \in DOMAIN ReturnedWaves[k].tasks :
                   LET out == ReturnedWaves[k].tasks[i]
                       rec == LastRecord(out.task_id)
                   IN  /\ out.enabler = rec.enabler
                       /\ out.size = rec.size
                       /\ out.tags = rec.tags

\* A plan was returned with an enabler task of size L with two tags, and with
\* a task that is no enabler, of size S and without tags.
C17_Witness ==
    /\ pc = "done"
    /\ \E k \in DOMAIN ReturnedWaves, n \in DOMAIN ReturnedWaves :
           \E i \in DOMAIN ReturnedWaves[k].tasks, j \in DOMAIN ReturnedWaves[n].tasks :
               /\ ReturnedWaves[k].tasks[i].enabler
               /\ ReturnedWaves[k].tasks[i].size = "L"
               /\ ReturnedWaves[k].tasks[i].tags = <<"x", "y">>
               /\ ~ReturnedWaves[n].tasks[j].enabler
               /\ ReturnedWaves[n].tasks[j].size = "S"
               /\ ReturnedWaves[n].tasks[j].tags = <<>>

(***************************************************************************)
(* C18.  When planning fails because the dependency graph has a cycle, the *)
(* error raised names the unresolved tasks, those that could not be        *)
(* ordered: the id of each of them occurs in its message.                  *)
(***************************************************************************)
C18_CycleErrorNamesTheUnresolvedTasks ==
    (pc = "error" /\ CyclicFeed) =>
        \A id \in LoadedIds \ Range(TopologicalResult) :
            StrIn(Chars(id), Chars(error))

C20_SharedLeadingSegmentIsProbed ==
    \A a \in DOMAIN tasks, b \in DOMAIN tasks :
        \A i \in DOMAIN tasks[a].file_patterns, j \in DOMAIN tasks[b].file_patterns :
            LET p == tasks[a].file_patterns[i]
                q == tasks[b].file_patterns[j]
                base1 == _extract_base_path(p.pattern)
                base2 == _extract_base_path(q.pattern)
                parts1 == PathParts(base1)
                parts2 == PathParts(base2)
            IN  (/\ ActualType(p) # "exact"
                 /\ ActualType(q) # "exact"
                 /\ ~(_is_exact_regex(p.pattern) /\ _is_exact_regex(q.pattern))
                 /\ parts1 # <<>>
                 /\ parts2 # <<>>
                 /\ parts1[1] = parts2[1]) =>
                    _patterns_conflict(p, q) =
                        _generate_and_test_paths(p, q, base1, base2)

(***************************************************************************)
(* C21.  Once the global topological sort has succeeded, the wave loop     *)
(* never raises 'No available tasks': in every state of the loop where     *)
(* some task is not completed, some uncompleted task has all of its        *)
(* dependencies completed.                                                 *)
(***************************************************************************)
C21_WaveLoopAlwaysFindsAnAvailableTask ==
    /\ (pc = "planning" /\ completed_tasks # DOMAIN tasks) =>
           \E id \in DOMAIN tasks \ completed_tasks :
               /\ Contains(AvailableTasks, id)
               /\ Range(tasks[id].depends_on) \subseteq completed_tasks
    /\ error # NoAvailableError

\* The loop is under way: a wave is complete, and of the tasks that are left
\* one waits for another while a third is available.
C21_Witness ==
    /\ pc = "planning"
    /\ waves # <<>>
    /\ \E id \in DOMAIN tasks \ completed_tasks :
           Range(tasks[id].depends_on) \ completed_tasks # {}
    /\ AvailableTasks # <<>>

(***************************************************************************)
(* C22.  Waves are numbered 1, 2, ..., total_waves in the order they are   *)
(* formed, without gaps or repeats: the k-th wave of the list carries wave *)
(* number k, and total_waves is the number of the last wave.               *)
(***************************************************************************)
C22_WavesAreNumberedInSequence ==
    /\ \A k \in DOMAIN waves : waves[k].wave_number = k
    /\ pc = "done" =>
           /\ \A k \in DOMAIN ReturnedWaves : ReturnedWaves[k].wave_number = k
           /\ Summary.total_waves = Len(ReturnedWaves)
           /\ ReturnedWaves # <<>> =>
                  ReturnedWaves[Len(ReturnedWaves)].wave_number = Summary.total_waves

\* A plan of three waves was returned.
C22_Witness ==
    /\ pc = "done"
    /\ Len(ReturnedWaves) = 3
    /\ Summary.total_waves = 3

(***************************************************************************)
(* C23.  load_data accepts without error a task whose dependency list      *)
(* names an id that is the id of no task.  That dependency is never        *)
(* satisfied: the task is never completed and never placed in a wave, and  *)
(* no plan is returned, neither with the task nor without it.              *)
(***************************************************************************)
C23_DanglingDependencyIsNeverSatisfied ==
    DanglingFeed =>
        /\ pc = "loaded" => error = NoError
        /\ pc # "constructed" =>
               \A id \in LoadedIds :
                   /\ id \in DOMAIN tasks
                   /\ Range(tasks[id].depends_on) = FeedDeps(id)
        /\ pc # "done"
        /\ result = NoResult
        /\ \A id \in LoadedIds :
               FeedDeps(id) \ LoadedIds # {} =>
                   /\ id \notin completed_tasks
                   /\ Occurrences(waves, id) = 0

\* Planning has ended for a feed in which a task that other tasks do not
\* depend on names an id that is the id of no task.
C23_Witness ==
    /\ DanglingFeed
    /\ pc = "error"
    /\ \E id \in DOMAIN tasks :
           /\ GhostId \in Range(tasks[id].depends_on)
           /\ \E other \in DOMAIN tasks : tasks[other].depends_on = <<>>

(***************************************************************************)
(* C24.  Planning an empty task set returns, without raising, a plan with  *)
(* no wave, total_tasks 0, average and maximum parallelism 0 and           *)
(* time_savings_percent 0; and time_savings_percent is 0 whenever the      *)
(* sequential time is 0.                                                   *)
(***************************************************************************)
C24_EmptyTaskSetGivesTheEmptyPlan ==
    /\ dependencies = <<>> => pc # "error" /\ error = NoError
    /\ (pc = "done" /\ dependencies = <<>>) =>
           /\ ReturnedWaves = <<>>
           /\ Summary.total_waves = 0
           /\ Summary.total_tasks = 0
           /\ Summary.average_parallelism = 0
           /\ Summary.max_parallelism = 0
           /\ Summary.efficiency_metrics.time_savings_percent = 0
    /\ (pc = "done" /\ Summary.efficiency_metrics.sequential_time_min = 0) =>
           Summary.efficiency_metrics.time_savings_percent = 0

\* The plan of the empty feeds was returned.
C24_Witness ==
    /\ pc = "done"
    /\ dependencies = <<>>
    /\ file_patterns_data = <<>>
    /\ result = ExecutionPlan(<<>>)

C26_NoTaskIsDelayedWithoutCause ==
    \A n \in DOMAIN waves :
        n > 1 =>
            \A T \in WaveIds(waves[n]) :
                \/ \E dep \in Range(tasks[T].depends_on) : dep \in WaveIds(waves[n - 1])
                \/ \E other \in WaveIds(waves[n - 1]) :
                       _check_file_conflict(tasks[T], tasks[other])

\* A plan was returned with a task that only a conflict has delayed (it
\* depends on nothing) and a task that only a dependency has delayed.
C26_Witness ==
    /\ pc = "done"
    /\ \E n \in DOMAIN waves :
           /\ n > 1
           /\ \E T \in WaveIds(waves[n]) :
                  /\ tasks[T].depends_on = <<>>
                  /\ \E other \in WaveIds(waves[n - 1]) :
                         _check_file_conflict(tasks[T], tasks[other])
    /\ \E n \in DOMAIN waves :
           /\ n > 1
           /\ \E T \in WaveIds(waves[n]) :
                  /\ \E dep \in Range(tasks[T].depends_on) : dep \in WaveIds(waves[n - 1])
                  /\ \A other \in WaveIds(waves[n - 1]) :
                         ~_check_file_conflict(tasks[T], tasks[other])

(***************************************************************************)
(* C27.  The plan does not depend on the order of the input: permuting the *)
(* records of the dependency feed, the records of the conflict feed, the   *)
(* ids of a dependency list or the patterns of a pattern list yields the   *)
(* same waves with the same tasks in the same order.                       *)
(***************************************************************************)
C27_PlanDoesNotDependOnTheOrderOfTheInput ==
    LET ids(ws) == [k \in DOMAIN ws |->
                       [i \in DOMAIN ws[k].tasks |-> ws[k].tasks[i].task_id]]
    IN  (run > 1 /\ pc \in {"done", "error"}) =>
            /\ (result = NoResult) <=> (prevResult = NoResult)
            /\ result # NoResult /\ prevResult # NoResult =>
                   ids(ReturnedWaves) = ids(prevResult.execution_plan.waves)

(***************************************************************************)
(* C28.  Two distinct tasks that declare an identical resource pattern     *)
(* (the same text and the same kind: exact, glob or regex, anchored or     *)
(* not) conflict, and are never placed in the same wave.                   *)
(***************************************************************************)
C28_IdenticalPatternsConflict ==
    \A a \in DOMAIN tasks, b \in DOMAIN tasks :
        (/\ a # b
         /\ \E i \in DOMAIN tasks[a].file_patterns, j \in DOMAIN tasks[b].file_patterns :
                tasks[a].file_patterns[i] = tasks[b].file_patterns[j]) =>
            /\ _check_file_conflict(tasks[a], tasks[b])
            /\ \A k \in DOMAIN waves : ~({a, b} \subseteq WaveIds(waves[k]))

(***************************************************************************)
(* C29.  The counts of a returned plan are consistent: each wave's         *)
(* parallel_task_count is the number of its task records and the sum of    *)
(* the counts of its size histogram, total_tasks is the sum of             *)
(* parallel_task_count over the waves, and max_parallelism is the largest  *)
(* parallel_task_count.                                                    *)
(***************************************************************************)
C29_CountsAreConsistent ==
    pc = "done" =>
        LET count(k) == ReturnedWaves[k].parallel_task_count
            histogram(k) == ReturnedWaves[k].size_distribution
            of(k, sz) == IF sz \in DOMAIN histogram(k) THEN histogram(k)[sz] ELSE 0
        IN  /\ \A k \in DOMAIN ReturnedWaves :
                   /\ count(k) = Len(ReturnedWaves[k].tasks)
                   /\ DOMAIN histogram(k) \subseteq {"S", "M", "L"}
                   /\ count(k) = of(k, "S") + of(k, "M") + of(k, "L")
                   /\ \A sz \in DOMAIN histogram(k) :
                          histogram(k)[sz] =
                              Cardinality({i \in DOMAIN ReturnedWaves[k].tasks :
                                              ReturnedWaves[k].tasks[i].size = sz})
            /\ Summary.total_tasks =
                   SumSeq([k \in DOMAIN ReturnedWaves |-> count(k)])
            /\ Summary.max_parallelism =
                   SetMax({count(k) : k \in DOMAIN ReturnedWaves} \cup {0})

\* A plan was returned with a wave of several tasks, two of them of one size
\* and one of another.
C29_Witness ==
    /\ pc = "done"
    /\ \E k \in DOMAIN ReturnedWaves :
           /\ ReturnedWaves[k].parallel_task_count = 3
           /\ \E sz \in DOMAIN ReturnedWaves[k].size_distribution :
                  ReturnedWaves[k].size_distribution[sz] = 2
    /\ Summary.max_parallelism = 3

====
